---- MODULE Spec2Model ----
(***************************************************************************)
(* MatruRaksha: the authorization core.                                    *)
(*   - the client Session Cache (AuthProvider), the Role Resolver          *)
(*     (AuthService) and the Access Gate (ProtectedRoute);                 *)
(*   - the Signup form and the registration-request REST calls;            *)
(*   - the identity provider's user table and the user_profiles table with *)
(*     its creation trigger (schema.sql);                                  *)
(*   - the backend registration endpoints, which are not part of the       *)
(*     frontend sources and are modelled from the specification.           *)
(***************************************************************************)
EXTENDS Naturals, Integers, Sequences, FiniteSets, TLC

(* ------------------------------ bounds --------------------------------- *)
\* Rows the registration queue may hold.
MaxRequests == 2
\* Identity-provider state-change events delivered to one client process.
MaxEvents == 2

(* ------------------------------ values --------------------------------- *)
AdminEmail == "admin@matruraksha.ai"
\* The people without an account that take part: one applicant, who may
\* submit again after a decision.
Applicants == {"d@x.com"}
Emails == {AdminEmail} \cup Applicants

Roles == {"ADMIN", "DOCTOR", "ASHA_WORKER"}
NoRole == "NONE"
NoProfile == "NOPROFILE"
NoUser == [id |-> "NONE", role |-> NoRole]
NoSession == [uid |-> "NONE", tok |-> 0]

NoToken == "NOTOKEN"
BadToken == "BADTOKEN"
Tokens == {NoToken, BadToken} \cup Emails

NoIdentity == [exists |-> FALSE, metaRole |-> NoRole, origin |-> "none"]

(* ----------------------------- variables ------------------------------- *)
VARIABLES
  \* identity provider and database
  authUsers,     \* auth.users: email -> identity (metadata role claim, origin)
  profiles,      \* public.user_profiles: email -> role, or NoProfile
  \* backend registration queue
  requests,      \* sequence of RegistrationRequest rows; the id is the index
  clock,         \* the backend's clock, read for decided_at
  lastCall,      \* the most recent REST call and its response
  okDecisions,   \* request id -> number of decide calls that succeeded
  \* AdminApprovals page
  adminRequests, adminLoading, adminError,
  \* AuthProvider (Session Cache)
  user, session, loading,
  initPc,        \* position of initAuth
  initBase,      \* the identity getUser() returned to initAuth's getCurrentUser
  initSess,      \* the session getSession() returned to initAuth
  opPc,          \* position of the signUp / signIn / signInWithGoogle / signOut call
  opArg,         \* its argument
  provSession,   \* the identity provider client's current session
  inflight,      \* state-change events whose role resolution has not completed
  evSeq,         \* number of state-change events fired so far
  lastEv,        \* the session carried by the most recent event
  resolved,      \* some resolution (initAuth, an event, signIn) has completed
  \* Signup page
  formRole, degreeFile, pwState, signupPc, sub, degreeUrl,
  signupError, signupLoading, signupSuccess,
  sent,          \* payloads the Signup flow handed to createRegisterRequest
  \* Role Resolver and user_profiles rows
  res,           \* the two most recent resolutions of getCurrentUser
  probe,         \* arguments and result of one _composeUser call
  phone,         \* public.user_profiles.phone: email -> set or not
  lastUpdate,    \* the most recent update statement on user_profiles
  \* AuthCallback page and the Signup form's submit handler
  callback,      \* AuthCallback: mounted, effect dependencies seen, navigation
  submitTick,    \* flips at every call of Signup.handleSubmit
  opResult       \* the error the last signIn / signOut call rethrew, if any

dbVars == <<authUsers, profiles>>
queueVars == <<requests, clock, lastCall, okDecisions>>
adminVars == <<adminRequests, adminLoading, adminError>>
cacheVars == <<user, session, loading>>
sessVars == <<user, session, loading, initPc, initBase, initSess, opPc, opArg,
              provSession, inflight, evSeq, lastEv, resolved>>
formVars == <<formRole, degreeFile, pwState, signupPc, sub, degreeUrl,
              signupError, signupLoading, signupSuccess, sent>>
storeVars == <<res, probe, phone, lastUpdate>>
viewVars == <<callback, submitTick, opResult>>
vars == <<authUsers, profiles, requests, clock, lastCall, okDecisions,
          adminRequests, adminLoading, adminError,
          user, session, loading, initPc, initBase, initSess, opPc, opArg,
          provSession, inflight, evSeq, lastEv, resolved,
          formRole, degreeFile, pwState, signupPc, sub, degreeUrl,
          signupError, signupLoading, signupSuccess, sent,
          res, probe, phone, lastUpdate, callback, submitTick, opResult>>

\* A REST call and its response: the bearer token it carried, the request id
\* and decision (decide), the role it named (create); n alternates so that
\* each call is a change.
Call(op, id, approved, token, role, code) ==
  [op |-> op, id |-> id, approved |-> approved, token |-> token,
   role |-> role, code |-> code, n |-> 1 - lastCall.n]

NoCall == [op |-> "none", id |-> 0, approved |-> FALSE, token |-> NoToken,
           role |-> NoRole, code |-> "none", n |-> 0]

(* ------------------- database: auth.users + user_profiles -------------- *)
\* The strings a caller may pass as a role: the enum labels, nothing, and a
\* lower-case variant of a label.
RoleInputs == Roles \cup {NoRole, "doctor"}

\* String(x).toUpperCase() on the role strings of the model.
ToUpperCase(r) == IF r = "doctor" THEN "DOCTOR" ELSE r

\* A role column of type text: every string is taken.
CastsToUserRole_AnyText(r) == TRUE

\* (x)::user_role succeeds on the enum labels (and on NULL).
CastsToUserRole(r) == r = NoRole \/ r \in Roles

\* handle_new_user: coalesce((raw_user_meta_data->>'role')::user_role, 'ASHA_WORKER').
HandleNewUserRole(metaRole) == IF metaRole = NoRole THEN "ASHA_WORKER" ELSE metaRole

\* options.data.role of AuthService.signUp: role || 'ASHA_WORKER'.
SignUpMetaRole(role) == IF role = NoRole THEN "ASHA_WORKER" ELSE role

\* The trigger function without its insert.
ProfilesAfterInsert_NoTrigger(email, metaRole) == profiles

\* on_auth_user_created: user_profiles after the insert of an auth.users row
\* carrying metaRole.
ProfilesAfterInsert(email, metaRole) ==
  [profiles EXCEPT ![email] = HandleNewUserRole(metaRole)]

\* supabase.auth.signUp succeeds when the email is free and the after-insert
\* trigger does not raise (a failed cast aborts the insert into auth.users).
SignUpAccepted(email, role) ==
  /\ ~authUsers[email].exists
  /\ CastsToUserRole(SignUpMetaRole(role))

UsersAfterSignUp(email, role) ==
  IF SignUpAccepted(email, role)
  THEN [authUsers EXCEPT ![email] =
          [exists |-> TRUE, metaRole |-> SignUpMetaRole(role), origin |-> "signup"]]
  ELSE authUsers

ProfilesAfterSignUp(email, role) ==
  IF SignUpAccepted(email, role)
  THEN ProfilesAfterInsert(email, SignUpMetaRole(role))
  ELSE profiles

(* ----------------------------- Role Resolver --------------------------- *)
\* The identity object the provider hands out for a user id.
\* (user_metadata.role is the sign-up claim; the provider puts no role in
\* app_metadata.)
BaseOf(uid) ==
  [id |-> uid, metaRole |-> authUsers[uid].metaRole, appRole |-> NoRole]

\* getUserProfile: the row's role, or {} (no role) when the read fails or no
\* row exists.
GetUserProfile(uid, readOk) ==
  IF readOk /\ profiles[uid] # NoProfile THEN profiles[uid] ELSE NoRole

\* _composeUser with the metadata claim taking precedence over profile.role.
ComposeUser_ClaimFirst(base, profileRole) ==
  [id |-> base.id,
   role |-> IF base.metaRole # NoRole THEN ToUpperCase(base.metaRole)
            ELSE IF base.appRole # NoRole THEN ToUpperCase(base.appRole)
            ELSE IF profileRole # NoRole THEN ToUpperCase(profileRole)
            ELSE NoRole]

\* _composeUser without the fallback to the metadata claim.
ComposeUser_ProfileOnly(base, profileRole) ==
  [id |-> base.id,
   role |-> IF profileRole # NoRole THEN ToUpperCase(profileRole) ELSE NoRole]

\* _composeUser: profile.role || (user_metadata.role || app_metadata.role)
\* || null, upper-cased.
ComposeUser(base, profileRole) ==
  [id |-> base.id,
   role |-> IF profileRole # NoRole THEN ToUpperCase(profileRole)
            ELSE IF base.metaRole # NoRole THEN ToUpperCase(base.metaRole)
            ELSE IF base.appRole # NoRole THEN ToUpperCase(base.appRole)
            ELSE NoRole]

\* The condition guarding the repair write: !merged.role && user_metadata.role.
NeedsRepair(merged, base) == merged.role = NoRole /\ base.metaRole # NoRole

\* _ensureProfileRole: the update succeeds when the row exists, the write is
\* let through and the value is an enum label.
RepairSucceeds(base, repairOk) ==
  /\ repairOk
  /\ profiles[base.id] # NoProfile
  /\ ToUpperCase(base.metaRole) \in Roles

\* The MergedUser a resolution returns (signIn, getCurrentUser and the
\* state-change handler share these lines).
ResolveUser(base, readOk, repairOk) ==
  LET merged == ComposeUser(base, GetUserProfile(base.id, readOk)) IN
  IF NeedsRepair(merged, base) /\ RepairSucceeds(base, repairOk)
  THEN ComposeUser(base, ToUpperCase(base.metaRole))
  ELSE merged

\* user_profiles after that resolution.
ProfilesAfterResolve(base, readOk, repairOk) ==
  LET merged == ComposeUser(base, GetUserProfile(base.id, readOk)) IN
  IF NeedsRepair(merged, base) /\ RepairSucceeds(base, repairOk)
  THEN [profiles EXCEPT ![base.id] = ToUpperCase(base.metaRole)]
  ELSE profiles

(* ------------- backend registration endpoints (from the spec) ---------- *)
\* The certificate states a payload may carry: degree_cert_url non-empty or not.
RequestableRoles == {"DOCTOR", "ASHA_WORKER"}

NewRow(p) == [email |-> p.email, role |-> p.role, cert |-> p.cert,
              status |-> "PENDING", decided_at |-> 0]

HasPending(email) ==
  \E i \in 1..Len(requests) :
    requests[i].email = email /\ requests[i].status = "PENDING"

\* POST /auth/register-request: 422 for a role outside {DOCTOR, ASHA_WORKER} or a
\* DOCTOR without certificate, 409 for a second PENDING request of one email.
CreateCode(p) ==
  IF p.role \notin RequestableRoles THEN "422"
  ELSE IF p.role = "DOCTOR" /\ ~p.cert THEN "422"
  ELSE IF HasPending(p.email) THEN "409"
  ELSE "200"

\* The role the backend resolves for a bearer token (profile first, then claim).
ServerRole(token) ==
  IF profiles[token] # NoProfile THEN profiles[token]
  ELSE authUsers[token].metaRole

\* Mutant: the role check trusts the role the client asserts.
AuthCode_TrustsClient(token, asserted) ==
  IF token \notin Emails \/ ~authUsers[token].exists THEN "401"
  ELSE IF ServerRole(token) # "ADMIN" /\ asserted # "ADMIN" THEN "403"
  ELSE "200"

\* Token verification, then the role check; the role a client asserts is not read.
AuthCode(token, asserted) ==
  IF token \notin Emails \/ ~authUsers[token].exists THEN "401"
  ELSE IF ServerRole(token) # "ADMIN" THEN "403"
  ELSE "200"

\* Mutant: the decision is not conditional on status = PENDING.
DecideCode_NoGuard(token, asserted, id) ==
  IF AuthCode(token, asserted) # "200" THEN AuthCode(token, asserted)
  ELSE IF id \notin 1..Len(requests) THEN "404"
  ELSE "200"

\* POST /auth/register-requests/{id}/decision.
DecideCode(token, asserted, id) ==
  IF AuthCode(token, asserted) # "200" THEN AuthCode(token, asserted)
  ELSE IF id \notin 1..Len(requests) THEN "404"
  ELSE IF requests[id].status # "PENDING" THEN "409"
  ELSE "200"

DecidedRow(row, approved, now) ==
  [row EXCEPT !.status = IF approved THEN "APPROVED" ELSE "REJECTED",
              !.decided_at = now]

\* Approval provisions the Identity + Profile pair with the requested role.
UsersAfterDecision(row, approved) ==
  IF approved /\ ~authUsers[row.email].exists
  THEN [authUsers EXCEPT ![row.email] =
          [exists |-> TRUE, metaRole |-> row.role, origin |-> "approval"]]
  ELSE authUsers

\* Mutant: the provisioned Profile gets the trigger's default role.
ProfilesAfterDecision_DefaultRole(row, approved) ==
  IF approved THEN [profiles EXCEPT ![row.email] = "ASHA_WORKER"] ELSE profiles

ProfilesAfterDecision(row, approved) ==
  IF approved THEN [profiles EXCEPT ![row.email] = row.role] ELSE profiles

\* The decision endpoint's effect on the queue and the database.
DecideEffect(token, asserted, id, approved) ==
  IF DecideCode(token, asserted, id) = "200"
  THEN /\ requests' = [requests EXCEPT
                         ![id] = DecidedRow(requests[id], approved, clock)]
       /\ clock' = clock + 1
       /\ okDecisions' = [okDecisions EXCEPT ![id] = @ + 1]
       /\ authUsers' = UsersAfterDecision(requests[id], approved)
       /\ profiles' = ProfilesAfterDecision(requests[id], approved)
  ELSE UNCHANGED <<requests, clock, okDecisions, authUsers, profiles>>

\* The rows GET /auth/register-requests returns: the ids still PENDING.
PendingIds(rows) == {i \in 1..Len(rows) : rows[i].status = "PENDING"}

\* Mutant: a re-submission re-opens the applicant's decided row.
RowsAfterCreate_Reopens(p) ==
  IF CreateCode(p) # "200" THEN requests
  ELSE IF \E i \in 1..Len(requests) : requests[i].email = p.email
  THEN LET i == CHOOSE i \in 1..Len(requests) : requests[i].email = p.email
       IN [requests EXCEPT ![i] = NewRow(p)]
  ELSE Append(requests, NewRow(p))

\* The queue after POST /auth/register-request.
RowsAfterCreate(p) ==
  IF CreateCode(p) = "200" THEN Append(requests, NewRow(p)) ELSE requests

(* --------------------------- REST client (api.js) ---------------------- *)
\* The axios instance sets Content-Type only and has no request interceptor:
\* the calls of authAPI carry no bearer token.
AxiosToken == NoToken

(* ------------------------------- Init ---------------------------------- *)
NoArg == [email |-> "NONE", role |-> NoRole, sess |-> NoSession]
NoSubmission == [email |-> "NONE", role |-> "ASHA_WORKER"]

SeedAdmin == [exists |-> TRUE, metaRole |-> NoRole, origin |-> "seed"]

\* One resolution of getCurrentUser: the claim and the row it met, what the
\* profile read returned, whether the repair update was issued, the row it
\* left and the role it returned.
NoResolution ==
  [uid |-> "NONE", meta |-> NoRole, rowBefore |-> NoProfile, rowAfter |-> NoProfile,
   readOk |-> TRUE, found |-> NoRole, wrote |-> FALSE, role |-> NoRole]

NoProbe == [user |-> NoRole, app |-> NoRole, profile |-> NoRole,
            out |-> NoRole, done |-> FALSE]

NoUpdate == [caller |-> "NONE", callerRole |-> NoRole, target |-> "NONE",
             field |-> "none", applied |-> FALSE]

\* AuthCallback as first rendered: the spinner, no effect run yet, no
\* getCurrentUser call pending, nothing navigated to.
CallbackMounted ==
  [mounted |-> TRUE, seen |-> <<>>, fetches |-> 0, navs |-> 0,
   target |-> "NONE", role |-> NoRole]

\* Everything but the _composeUser arguments under test.
InitCore ==
  /\ authUsers = [e \in Emails |-> IF e = AdminEmail THEN SeedAdmin ELSE NoIdentity]
  /\ profiles = [e \in Emails |-> IF e = AdminEmail THEN "ADMIN" ELSE NoProfile]
  /\ requests = <<>>
  /\ clock = 1
  /\ lastCall = NoCall
  /\ okDecisions = [i \in 1..MaxRequests |-> 0]
  /\ adminRequests = {} /\ adminLoading = TRUE /\ adminError = FALSE
  /\ user = NoUser /\ session = NoSession /\ loading = TRUE
  /\ initPc = "getSession" /\ initBase = NoUser.id /\ initSess = NoSession
  /\ opPc = "idle" /\ opArg = NoArg
  /\ provSession = NoSession
  /\ inflight = {}
  /\ evSeq = 0
  /\ lastEv = NoSession
  /\ resolved = FALSE
  /\ formRole = "ASHA_WORKER" /\ degreeFile = FALSE /\ pwState = "short"
  /\ signupPc = "idle" /\ sub = NoSubmission /\ degreeUrl = FALSE
  /\ signupError = FALSE /\ signupLoading = FALSE /\ signupSuccess = FALSE
  /\ sent = {}
  /\ res = [cur |-> NoResolution, prev |-> NoResolution]
  /\ phone = [e \in Emails |-> FALSE]
  /\ lastUpdate = NoUpdate
  /\ callback = CallbackMounted
  /\ submitTick = FALSE
  /\ opResult = "none"

Init == InitCore /\ probe = NoProbe

(* ------------------- REST calls made by any HTTP client ---------------- *)
Payloads == [email : Applicants, role : Roles, cert : BOOLEAN]
AssertedRoles == {NoRole, "ADMIN"}

ApiCreateRequest(p) ==
  /\ Len(requests) < MaxRequests
  /\ requests' = RowsAfterCreate(p)
  /\ lastCall' = Call("create", Len(requests) + 1, FALSE, NoToken, p.role,
                      CreateCode(p))
  /\ UNCHANGED <<clock, okDecisions, adminRequests, adminLoading, adminError>>
  /\ UNCHANGED dbVars /\ UNCHANGED sessVars /\ UNCHANGED formVars
  /\ UNCHANGED storeVars /\ UNCHANGED viewVars

ApiListRequests(token, asserted) ==
  /\ lastCall' = Call("list", 0, FALSE, token, NoRole, AuthCode(token, asserted))
  /\ UNCHANGED <<requests, clock, okDecisions, adminRequests, adminLoading, adminError>>
  /\ UNCHANGED dbVars /\ UNCHANGED sessVars /\ UNCHANGED formVars
  /\ UNCHANGED storeVars /\ UNCHANGED viewVars

ApiDecide(token, asserted, id, approved) ==
  /\ DecideEffect(token, asserted, id, approved)
  /\ lastCall' = Call("decide", id, approved, token, NoRole,
                      DecideCode(token, asserted, id))
  /\ UNCHANGED <<adminRequests, adminLoading, adminError>>
  /\ UNCHANGED sessVars /\ UNCHANGED formVars
  /\ UNCHANGED storeVars /\ UNCHANGED viewVars

(* ---------------------------- AdminApprovals --------------------------- *)
\* loadRequests: list with the axios instance; the rows on success, the error
\* message otherwise; loading ends false.
AdminLoadRequests ==
  /\ lastCall' = Call("list", 0, FALSE, AxiosToken, NoRole, AuthCode(AxiosToken, NoRole))
  /\ IF AuthCode(AxiosToken, NoRole) = "200"
     THEN adminRequests' = PendingIds(requests) /\ UNCHANGED adminError
     ELSE adminError' = TRUE /\ UNCHANGED adminRequests
  /\ adminLoading' = FALSE
  /\ UNCHANGED <<requests, clock, okDecisions>>
  /\ UNCHANGED dbVars /\ UNCHANGED sessVars /\ UNCHANGED formVars
  /\ UNCHANGED storeVars /\ UNCHANGED viewVars

\* decide(id, approved): the decision call, then loadRequests; an error of
\* either sets the error message.
AdminDecide(id, approved) ==
  LET code == DecideCode(AxiosToken, NoRole, id) IN
  /\ DecideEffect(AxiosToken, NoRole, id, approved)
  /\ IF code = "200"
     THEN \* lastCall keeps the decision; the list that follows carries the
          \* same token and shows in adminRequests
          /\ lastCall' = Call("decide", id, approved, AxiosToken, NoRole, code)
          /\ adminRequests' = PendingIds(requests')
          /\ adminLoading' = FALSE
          /\ UNCHANGED adminError
     ELSE /\ lastCall' = Call("decide", id, approved, AxiosToken, NoRole, code)
          /\ adminError' = TRUE
          /\ UNCHANGED <<adminRequests, adminLoading>>
  /\ UNCHANGED sessVars /\ UNCHANGED formVars
  /\ UNCHANGED storeVars /\ UNCHANGED viewVars

(* -------------------------- AuthService.signUp ------------------------- *)
\* authService.signUp called directly (no AuthProvider state involved).
AuthServiceSignUp(email, role) ==
  /\ authUsers' = UsersAfterSignUp(email, role)
  /\ profiles' = ProfilesAfterSignUp(email, role)
  /\ UNCHANGED queueVars /\ UNCHANGED adminVars
  /\ UNCHANGED sessVars /\ UNCHANGED formVars
  /\ UNCHANGED storeVars /\ UNCHANGED viewVars

\* The ids a caller may name: the rows of the queue and one id of no row.
RequestIds == 1..(Len(requests) + 1)

NextApproval ==
  \/ \E p \in Payloads : ApiCreateRequest(p)
  \/ \E t \in Tokens, a \in AssertedRoles : ApiListRequests(t, a)
  \/ \E t \in Tokens, a \in AssertedRoles, i \in RequestIds, b \in BOOLEAN :
       ApiDecide(t, a, i, b)
  \/ \E e \in Applicants, r \in RoleInputs : AuthServiceSignUp(e, r)

\* The backend's endpoints under every caller, and direct sign-up.
SpecApproval == Init /\ [][NextApproval]_vars

\* The AdminApprovals page next to an Admin's and an applicant's own calls.
NextAdminPage ==
  \/ AdminLoadRequests
  \/ \E i \in RequestIds, b \in BOOLEAN : AdminDecide(i, b)
  \/ \E p \in Payloads : ApiCreateRequest(p)
  \/ \E i \in RequestIds, b \in BOOLEAN : ApiDecide(AdminEmail, NoRole, i, b)

SpecAdminPage == Init /\ [][NextAdminPage]_vars

(* ------------------ registration and approval: properties -------------- *)
\* The step is a decision call on request i.
IsDecideCall(i) ==
  lastCall'.n # lastCall.n /\ lastCall'.op = "decide" /\ lastCall'.id = i

\* The bearer token belongs to an identity whose Profile role is ADMIN.
IsAdminToken(t) == t \in Emails /\ authUsers[t].exists /\ profiles[t] = "ADMIN"

\* C3: the role claim in an Identity's sign-up metadata is never ADMIN, and no
\* Profile other than the seeded Admin's has role ADMIN.
C3_NoAdminBySignUp ==
  \A e \in Emails :
    /\ authUsers[e].metaRole # "ADMIN"
    /\ (authUsers[e].origin = "signup" => profiles[e] # "ADMIN")

\* C4: an applicant's Identity with role DOCTOR or ASHA_WORKER exists only when
\* an APPROVED RegistrationRequest of that applicant exists.
C4_IdentityOnlyByApproval ==
  \A e \in Applicants :
    (authUsers[e].exists /\ profiles[e] \in RequestableRoles)
      => \E i \in 1..Len(requests) :
           requests[i].email = e /\ requests[i].status = "APPROVED"

\* C5: at most one decision call per request succeeds; a decision call by an
\* Admin on a decided request answers 409 and changes neither the request nor
\* the identities and profiles; a call succeeds only on a PENDING request.
C5_Step ==
  \A i \in 1..Len(requests) :
    /\ okDecisions'[i] <= 1
    /\ (IsDecideCall(i) /\ lastCall'.code = "200")
         => (requests[i].status = "PENDING" /\ okDecisions[i] = 0)
    /\ (IsDecideCall(i) /\ requests[i].status # "PENDING" /\ IsAdminToken(lastCall'.token))
         => /\ lastCall'.code = "409"
            /\ requests' = requests
            /\ authUsers' = authUsers /\ profiles' = profiles

C5_DecisionsSerialized == [][C5_Step]_vars

\* C5 witness: a second decision on a decided request was answered 409.
C5_Witness ==
  /\ lastCall.op = "decide" /\ lastCall.code = "409"
  /\ lastCall.id \in 1..Len(requests)
  /\ okDecisions[lastCall.id] = 1
  /\ requests[lastCall.id].status = "REJECTED"
  /\ lastCall.approved

\* C6: a row's status only moves PENDING -> APPROVED or PENDING -> REJECTED; a
\* decided row never changes again; rows are never removed and a submission
\* only appends a row.
C6_Step ==
  /\ Len(requests') >= Len(requests)
  /\ \A i \in 1..Len(requests) :
       /\ requests'[i].email = requests[i].email
       /\ requests'[i].role = requests[i].role
       /\ requests[i].status = "PENDING"
            => \/ requests'[i] = requests[i]
               \/ /\ requests'[i].status \in {"APPROVED", "REJECTED"}
                  /\ requests'[i].decided_at # 0
       /\ requests[i].status # "PENDING" => requests'[i] = requests[i]

C6_StatusMonotone == [][C6_Step]_vars

\* C6 witness: a re-submission after a decision stands as a row of its own.
C6_Witness ==
  \E i, j \in 1..Len(requests) :
    /\ i < j
    /\ requests[i].email = requests[j].email
    /\ requests[i].status # "PENDING" /\ requests[i].decided_at # 0
    /\ requests[j].status = "PENDING" /\ requests[j].decided_at = 0

\* C7: a decision by an Admin on a PENDING request succeeds; approved = true
\* gives APPROVED with decided_at set and an Identity + Profile with the
\* requested role; approved = false gives REJECTED with decided_at set and
\* leaves identities and profiles as they were.
C7_Step ==
  \A i \in 1..Len(requests) :
    (IsDecideCall(i) /\ requests[i].status = "PENDING" /\ IsAdminToken(lastCall'.token))
      => /\ lastCall'.code = "200"
         /\ requests'[i].decided_at # 0
         /\ IF lastCall'.approved
            THEN /\ requests'[i].status = "APPROVED"
                 /\ authUsers'[requests[i].email].exists
                 /\ profiles'[requests[i].email] = requests[i].role
            ELSE /\ requests'[i].status = "REJECTED"
                 /\ authUsers' = authUsers /\ profiles' = profiles

C7_DecisionEffect == [][C7_Step]_vars

\* C7 witness: an approved DOCTOR request, its Identity and DOCTOR Profile.
C7_Witness ==
  /\ lastCall.op = "decide" /\ lastCall.code = "200" /\ lastCall.approved
  /\ lastCall.id \in 1..Len(requests)
  /\ requests[lastCall.id].status = "APPROVED"
  /\ requests[lastCall.id].role = "DOCTOR"
  /\ authUsers[requests[lastCall.id].email].origin = "approval"
  /\ profiles[requests[lastCall.id].email] = "DOCTOR"

\* C8: a list or decision call whose token is missing, invalid or of no
\* identity answers 401; with a valid token of a non-Admin Profile it answers
\* 403; the queue, identities and profiles change in a decision call only when
\* the caller's Profile role is ADMIN, whatever role the call asserts.
C8_Step ==
  (lastCall'.n # lastCall.n /\ lastCall'.op \in {"list", "decide"})
    => LET t == lastCall'.token IN
       /\ (t \notin Emails \/ ~authUsers[t].exists) => lastCall'.code = "401"
       /\ (t \in Emails /\ authUsers[t].exists /\ profiles[t] # "ADMIN")
            => lastCall'.code = "403"
       /\ lastCall'.code \notin {"401", "403"} => IsAdminToken(t)
       /\ ~IsAdminToken(t)
            => (requests' = requests /\ authUsers' = authUsers /\ profiles' = profiles)

C8_ServerReauthorizes == [][C8_Step]_vars

\* C8 witness: a decision call on a PENDING request with the valid token of a
\* non-Admin was answered 403.
C8_Witness ==
  /\ lastCall.op = "decide" /\ lastCall.code = "403"
  /\ lastCall.token \in Applicants
  /\ lastCall.id \in 1..Len(requests)
  /\ requests[lastCall.id].status = "PENDING"

(* ------------------------------ Signup page ---------------------------- *)
\* Mutant: the <select> also offers the Admin role.
RoleOptions_WithAdmin == {"ASHA_WORKER", "DOCTOR", "ADMIN"}

\* The <option> values of the role <select> (Admin is not offered).
RoleOptions == {"ASHA_WORKER", "DOCTOR"}

\* What the two password fields hold: equal and >= 8 characters, different,
\* or equal and shorter than 8.
PasswordStates == {"ok", "mismatch", "short"}

\* What POST /auth/upload-cert may answer: a body with public_url, a body
\* without it, or an error.
UploadOutcomes == {"url", "nourl", "error"}

HandleChangeRole(r) ==
  /\ ~signupSuccess
  /\ formRole' = r
  /\ signupError' = FALSE
  /\ UNCHANGED <<degreeFile, pwState, signupPc, sub, degreeUrl, signupLoading,
                 signupSuccess, sent>>
  /\ UNCHANGED dbVars /\ UNCHANGED queueVars /\ UNCHANGED adminVars
  /\ UNCHANGED sessVars
  /\ UNCHANGED storeVars /\ UNCHANGED viewVars

HandleChangePassword(st) ==
  /\ ~signupSuccess
  /\ pwState' = st
  /\ signupError' = FALSE
  /\ UNCHANGED <<formRole, degreeFile, signupPc, sub, degreeUrl, signupLoading,
                 signupSuccess, sent>>
  /\ UNCHANGED dbVars /\ UNCHANGED queueVars /\ UNCHANGED adminVars
  /\ UNCHANGED sessVars
  /\ UNCHANGED storeVars /\ UNCHANGED viewVars

\* The file input is rendered for the DOCTOR role only.
SetDegreeFile(f) ==
  /\ ~signupSuccess
  /\ formRole = "DOCTOR"
  /\ degreeFile' = f
  /\ UNCHANGED <<formRole, pwState, signupPc, sub, degreeUrl, signupError,
                 signupLoading, signupSuccess, sent>>
  /\ UNCHANGED dbVars /\ UNCHANGED queueVars /\ UNCHANGED adminVars
  /\ UNCHANGED sessVars
  /\ UNCHANGED storeVars /\ UNCHANGED viewVars

\* handleSubmit's validation with the length check left out.
SubmitVerdict_NoLength(pw, role, file) ==
  IF pw = "mismatch" THEN "mismatch"
  ELSE IF role = "DOCTOR" /\ ~file THEN "nofile"
  ELSE "send"

\* handleSubmit's validation, in the order of the code: the two passwords
\* differ, the password is shorter than 8, a DOCTOR without a file.
SubmitVerdict(pw, role, file) ==
  IF pw = "mismatch" THEN "mismatch"
  ELSE IF pw = "short" THEN "short"
  ELSE IF role = "DOCTOR" /\ ~file THEN "nofile"
  ELSE "send"

\* handleSubmit up to its first await (or its return).
HandleSubmit(email) ==
  /\ ~signupSuccess /\ ~signupLoading /\ signupPc = "idle"
  /\ submitTick' = ~submitTick
  /\ IF SubmitVerdict(pwState, formRole, degreeFile) \in {"mismatch", "short"}
     THEN /\ signupError' = TRUE /\ signupLoading' = FALSE
          /\ UNCHANGED <<signupPc, sub, degreeUrl>>
     ELSE IF SubmitVerdict(pwState, formRole, degreeFile) = "nofile"
     THEN /\ signupError' = TRUE /\ signupLoading' = FALSE
          /\ degreeUrl' = FALSE
          /\ UNCHANGED <<signupPc, sub>>
     ELSE /\ signupError' = FALSE /\ signupLoading' = TRUE
          /\ sub' = [email |-> email, role |-> formRole]
          /\ degreeUrl' = FALSE
          /\ signupPc' = IF formRole = "DOCTOR" THEN "upload" ELSE "create"
  /\ UNCHANGED <<formRole, degreeFile, pwState, signupSuccess, sent>>
  /\ UNCHANGED dbVars /\ UNCHANGED queueVars /\ UNCHANGED adminVars
  /\ UNCHANGED sessVars
  /\ UNCHANGED storeVars /\ UNCHANGED <<callback, opResult>>

\* degreeUrl = up?.data?.public_url || null.
DegreeUrlOf(outcome) == outcome = "url"

\* authAPI.uploadCertification returns or throws.
UploadResponds(outcome) ==
  /\ signupPc = "upload"
  /\ IF outcome = "error"
     THEN /\ signupError' = TRUE /\ signupLoading' = FALSE /\ signupPc' = "idle"
          /\ UNCHANGED degreeUrl
     ELSE /\ degreeUrl' = DegreeUrlOf(outcome) /\ signupPc' = "create"
          /\ UNCHANGED <<signupError, signupLoading>>
  /\ UNCHANGED <<formRole, degreeFile, pwState, sub, signupSuccess, sent>>
  /\ UNCHANGED dbVars /\ UNCHANGED queueVars /\ UNCHANGED adminVars
  /\ UNCHANGED sessVars
  /\ UNCHANGED storeVars /\ UNCHANGED viewVars

\* The payload of lines 63-70.
SignupPayload == [email |-> sub.email, role |-> sub.role, cert |-> degreeUrl]

\* authAPI.createRegisterRequest(payload) returns or throws; finally.
CreateResponds ==
  /\ signupPc = "create"
  /\ Len(requests) < MaxRequests
  /\ sent' = sent \cup {SignupPayload}
  /\ requests' = RowsAfterCreate(SignupPayload)
  /\ lastCall' = Call("create", Len(requests) + 1, FALSE, AxiosToken,
                      SignupPayload.role, CreateCode(SignupPayload))
  /\ IF CreateCode(SignupPayload) = "200"
     THEN signupSuccess' = TRUE /\ UNCHANGED signupError
     ELSE signupError' = TRUE /\ UNCHANGED signupSuccess
  /\ signupLoading' = FALSE
  /\ signupPc' = "idle"
  /\ UNCHANGED <<formRole, degreeFile, pwState, sub, degreeUrl>>
  /\ UNCHANGED <<clock, okDecisions>>
  /\ UNCHANGED dbVars /\ UNCHANGED adminVars /\ UNCHANGED sessVars
  /\ UNCHANGED storeVars /\ UNCHANGED viewVars

\* The page is opened again: the useState initial values.
SignupMount ==
  /\ signupPc = "idle"
  /\ formRole' = "ASHA_WORKER" /\ degreeFile' = FALSE /\ pwState' = "short"
  /\ sub' = NoSubmission /\ degreeUrl' = FALSE
  /\ signupError' = FALSE /\ signupLoading' = FALSE /\ signupSuccess' = FALSE
  /\ UNCHANGED <<signupPc, sent>>
  /\ UNCHANGED dbVars /\ UNCHANGED queueVars /\ UNCHANGED adminVars
  /\ UNCHANGED sessVars
  /\ UNCHANGED storeVars /\ UNCHANGED viewVars

NextSignup ==
  \/ \E r \in RoleOptions : HandleChangeRole(r)
  \/ \E st \in PasswordStates : HandleChangePassword(st)
  \/ \E f \in BOOLEAN : SetDegreeFile(f)
  \/ \E e \in Applicants : HandleSubmit(e)
  \/ \E o \in UploadOutcomes : UploadResponds(o)
  \/ CreateResponds
  \/ SignupMount
  \/ \E p \in Payloads : ApiCreateRequest(p)

SpecSignup == Init /\ [][NextSignup]_vars

(* ------------------------- Signup page: properties --------------------- *)
\* C9: no RegistrationRequest has role_requested = ADMIN: the form's role and
\* every payload it sends is ASHA_WORKER or DOCTOR, and a submission naming
\* ADMIN is answered 422 and not stored.
C9_NoAdminRequest ==
  /\ formRole \in {"ASHA_WORKER", "DOCTOR"}
  /\ \A p \in sent : p.role \in {"ASHA_WORKER", "DOCTOR"}
  /\ \A i \in 1..Len(requests) : requests[i].role # "ADMIN"
  /\ (lastCall.op = "create" /\ lastCall.role = "ADMIN")
       => (lastCall.code = "422" /\ lastCall.id > Len(requests))

\* C9 witness: the form stored a DOCTOR request and a submission naming ADMIN
\* was answered 422.
C9_Witness ==
  /\ lastCall.op = "create" /\ lastCall.role = "ADMIN" /\ lastCall.code = "422"
  /\ \E p \in sent : p.role = "DOCTOR"
  /\ \E i \in 1..Len(requests) : requests[i].role = "DOCTOR"

\* C10: a DOCTOR request without degree_cert_url is never submitted or
\* accepted: every payload the Signup flow sends with role DOCTOR carries a
\* certificate URL and no stored DOCTOR row lacks one.
C10_DoctorCarriesCert ==
  /\ \A p \in sent : p.role = "DOCTOR" => p.cert
  /\ \A i \in 1..Len(requests) : requests[i].role = "DOCTOR" => requests[i].cert


\* C25: a call of handleSubmit whose validation fails (the passwords differ,
\* the password is shorter than 8, or a DOCTOR has selected no file) starts
\* no upload-cert and no register-request call, sets the error, leaves
\* success false and leaves loading false.
C25_Step ==
  (/\ submitTick' # submitTick
   /\ \/ pwState \in {"mismatch", "short"}
      \/ formRole = "DOCTOR" /\ ~degreeFile)
  => /\ signupPc' = "idle"
     /\ sent' = sent /\ requests' = requests /\ lastCall' = lastCall
     /\ signupError' /\ ~signupSuccess' /\ ~signupLoading'
C25_ValidationSendsNothing == [][C25_Step]_vars

\* C25 witness: a too-short password was submitted; the error is shown and
\* nothing was sent.
C25_Witness ==
  /\ submitTick /\ pwState = "short" /\ signupError
  /\ signupPc = "idle" /\ sent = {} /\ requests = <<>>
  /\ ~signupSuccess /\ ~signupLoading

(* ---------------------- identity provider (client) --------------------- *)
ExistingUsers == {e \in Emails : authUsers[e].exists}

\* persistSession: the provider client starts from the session it stored.
ProviderStoredSession(u) ==
  /\ initPc = "getSession" /\ evSeq = 0 /\ opPc = "idle"
  /\ provSession = NoSession /\ ~resolved
  /\ u \in ExistingUsers
  /\ provSession' = [uid |-> u, tok |-> 0]
  /\ UNCHANGED <<user, session, loading, initPc, initBase, initSess, opPc, opArg,
                 inflight, evSeq, lastEv, resolved>>
  /\ UNCHANGED dbVars /\ UNCHANGED queueVars /\ UNCHANGED adminVars
  /\ UNCHANGED formVars
  /\ UNCHANGED storeVars /\ UNCHANGED viewVars

\* The handler AuthService.onAuthStateChange registers, up to its first await:
\* with no session.user it calls the AuthProvider callback at once
\* (setSession, setUser(null), setLoading(false)); otherwise the profile read
\* is in flight.
Dispatch(sess) ==
  /\ evSeq' = evSeq + 1
  /\ lastEv' = sess
  /\ IF sess = NoSession
     THEN /\ session' = NoSession /\ user' = NoUser /\ loading' = FALSE
          /\ resolved' = TRUE
          /\ UNCHANGED inflight
     ELSE /\ inflight' = inflight \cup {[seq |-> evSeq + 1, sess |-> sess]}
          /\ UNCHANGED <<user, session, loading, resolved>>

\* TOKEN_REFRESHED (autoRefreshToken).
TokenRefreshed ==
  /\ evSeq < MaxEvents
  /\ provSession # NoSession
  /\ provSession' = [uid |-> provSession.uid, tok |-> evSeq + 1]
  /\ Dispatch(provSession')
  /\ UNCHANGED <<initPc, initBase, initSess, opPc, opArg>>
  /\ UNCHANGED dbVars /\ UNCHANGED queueVars /\ UNCHANGED adminVars
  /\ UNCHANGED formVars
  /\ UNCHANGED storeVars /\ UNCHANGED viewVars

\* SIGNED_OUT raised by the provider itself (token invalidated or expired).
ProviderSignedOut ==
  /\ evSeq < MaxEvents
  /\ provSession # NoSession
  /\ provSession' = NoSession
  /\ Dispatch(NoSession)
  /\ UNCHANGED <<initPc, initBase, initSess, opPc, opArg>>
  /\ UNCHANGED dbVars /\ UNCHANGED queueVars /\ UNCHANGED adminVars
  /\ UNCHANGED formVars
  /\ UNCHANGED storeVars /\ UNCHANGED viewVars

\* SIGNED_IN raised by the provider itself (detectSessionInUrl: the OAuth
\* redirect back to /auth/callback).
ProviderSignedIn(u) ==
  /\ evSeq < MaxEvents
  /\ u \in ExistingUsers
  /\ provSession' = [uid |-> u, tok |-> evSeq + 1]
  /\ Dispatch(provSession')
  /\ UNCHANGED <<initPc, initBase, initSess, opPc, opArg>>
  /\ UNCHANGED dbVars /\ UNCHANGED queueVars /\ UNCHANGED adminVars
  /\ UNCHANGED formVars
  /\ UNCHANGED storeVars /\ UNCHANGED viewVars

\* The rest of the handler: the resolution completes and the AuthProvider
\* callback stores the event's session and the merged user.
EventComplete(r, readOk, repairOk) ==
  /\ r \in inflight
  /\ inflight' = inflight \ {r}
  /\ session' = r.sess
  /\ user' = ResolveUser(BaseOf(r.sess.uid), readOk, repairOk)
  /\ profiles' = ProfilesAfterResolve(BaseOf(r.sess.uid), readOk, repairOk)
  /\ loading' = FALSE
  /\ resolved' = TRUE
  /\ UNCHANGED <<initPc, initBase, initSess, opPc, opArg, provSession, evSeq, lastEv>>
  /\ UNCHANGED authUsers /\ UNCHANGED queueVars /\ UNCHANGED adminVars
  /\ UNCHANGED formVars
  /\ UNCHANGED storeVars /\ UNCHANGED viewVars

(* ------------------------- AuthProvider: initAuth ---------------------- *)
\* await authService.getSession(); setSession; without a user, finally.
InitGetSession(ok) ==
  /\ initPc = "getSession"
  /\ LET cs == IF ok THEN provSession ELSE NoSession IN
     /\ session' = cs
     /\ initSess' = cs
     /\ IF cs # NoSession
        THEN initPc' = "getUser" /\ UNCHANGED <<loading, resolved>>
        ELSE initPc' = "done" /\ loading' = FALSE /\ resolved' = TRUE
  /\ UNCHANGED <<user, initBase, opPc, opArg, provSession, inflight, evSeq, lastEv>>
  /\ UNCHANGED dbVars /\ UNCHANGED queueVars /\ UNCHANGED adminVars
  /\ UNCHANGED formVars
  /\ UNCHANGED storeVars /\ UNCHANGED viewVars

\* getCurrentUser: supabase.auth.getUser(); an error or no user gives null,
\* then setUser(null) and finally.
InitGetUser(ok) ==
  /\ initPc = "getUser"
  /\ IF ok /\ provSession # NoSession
     THEN /\ initBase' = provSession.uid
          /\ initPc' = "getProfile"
          /\ UNCHANGED <<user, loading, resolved>>
     ELSE /\ user' = NoUser
          /\ loading' = FALSE /\ resolved' = TRUE
          /\ initPc' = "done"
          /\ UNCHANGED initBase
  /\ UNCHANGED <<session, initSess, opPc, opArg, provSession, inflight, evSeq, lastEv>>
  /\ UNCHANGED dbVars /\ UNCHANGED queueVars /\ UNCHANGED adminVars
  /\ UNCHANGED formVars
  /\ UNCHANGED storeVars /\ UNCHANGED viewVars

\* getCurrentUser: the profile read, compose, repair; setUser; finally.
InitGetProfile(readOk, repairOk) ==
  /\ initPc = "getProfile"
  /\ user' = ResolveUser(BaseOf(initBase), readOk, repairOk)
  /\ profiles' = ProfilesAfterResolve(BaseOf(initBase), readOk, repairOk)
  /\ loading' = FALSE /\ resolved' = TRUE
  /\ initPc' = "done"
  /\ UNCHANGED <<session, initBase, initSess, opPc, opArg, provSession, inflight,
                 evSeq, lastEv>>
  /\ UNCHANGED authUsers /\ UNCHANGED queueVars /\ UNCHANGED adminVars
  /\ UNCHANGED formVars
  /\ UNCHANGED storeVars /\ UNCHANGED viewVars

NextEvents ==
  \/ \E u \in Emails : ProviderStoredSession(u)
  \/ TokenRefreshed
  \/ ProviderSignedOut
  \/ \E u \in Emails : ProviderSignedIn(u)
  \/ \E r \in inflight, a, b \in BOOLEAN : EventComplete(r, a, b)
  \/ \E ok \in BOOLEAN : InitGetSession(ok)
  \/ \E ok \in BOOLEAN : InitGetUser(ok)
  \/ \E a, b \in BOOLEAN : InitGetProfile(a, b)

\* initAuth and the state-change subscription alone.
SpecEvents == Init /\ [][NextEvents]_vars

(* ---------------- AuthProvider: signUp, signIn, signOut ---------------- *)
\* signUp(userData) up to its await: setLoading(true).
SignUpStart(email, role) ==
  /\ opPc = "idle"
  /\ loading' = TRUE
  /\ opPc' = "signUp"
  /\ opArg' = [email |-> email, role |-> role, sess |-> NoSession]
  /\ UNCHANGED <<user, session, initPc, initBase, initSess, provSession, inflight,
                 evSeq, lastEv, resolved>>
  /\ UNCHANGED dbVars /\ UNCHANGED queueVars /\ UNCHANGED adminVars
  /\ UNCHANGED formVars
  /\ UNCHANGED storeVars /\ UNCHANGED viewVars

\* authService.signUp returns or throws; finally setLoading(false).
SignUpFinish ==
  /\ opPc = "signUp"
  /\ authUsers' = UsersAfterSignUp(opArg.email, opArg.role)
  /\ profiles' = ProfilesAfterSignUp(opArg.email, opArg.role)
  /\ loading' = FALSE
  /\ opPc' = "idle" /\ opArg' = NoArg
  /\ UNCHANGED <<user, session, initPc, initBase, initSess, provSession, inflight,
                 evSeq, lastEv, resolved>>
  /\ UNCHANGED queueVars /\ UNCHANGED adminVars /\ UNCHANGED formVars
  /\ UNCHANGED storeVars /\ UNCHANGED viewVars

\* signInWithGoogle up to its await: setLoading(true).
GoogleStart ==
  /\ opPc = "idle"
  /\ loading' = TRUE
  /\ opPc' = "google"
  /\ UNCHANGED <<user, session, initPc, initBase, initSess, opArg, provSession,
                 inflight, evSeq, lastEv, resolved>>
  /\ UNCHANGED dbVars /\ UNCHANGED queueVars /\ UNCHANGED adminVars
  /\ UNCHANGED formVars
  /\ UNCHANGED storeVars /\ UNCHANGED viewVars

\* signInWithOAuth returns the redirect URL or throws; finally.
GoogleFinish ==
  /\ opPc = "google"
  /\ loading' = FALSE
  /\ opPc' = "idle"
  /\ UNCHANGED <<user, session, initPc, initBase, initSess, opArg, provSession,
                 inflight, evSeq, lastEv, resolved>>
  /\ UNCHANGED dbVars /\ UNCHANGED queueVars /\ UNCHANGED adminVars
  /\ UNCHANGED formVars
  /\ UNCHANGED storeVars /\ UNCHANGED viewVars

\* signIn(email, password) up to its await: setLoading(true).
SignInStart(email) ==
  /\ opPc = "idle"
  /\ loading' = TRUE
  /\ opPc' = "signIn"
  /\ opArg' = [email |-> email, role |-> NoRole, sess |-> NoSession]
  /\ UNCHANGED <<user, session, initPc, initBase, initSess, provSession, inflight,
                 evSeq, lastEv, resolved>>
  /\ UNCHANGED dbVars /\ UNCHANGED queueVars /\ UNCHANGED adminVars
  /\ UNCHANGED formVars
  /\ UNCHANGED storeVars /\ UNCHANGED <<callback, submitTick>> /\ opResult' = "none"


\* signIn with a catch block that clears the cache when the provider rejects.
SignInProvider_ClearsCache(pwOk) ==
  /\ opPc = "signIn"
  /\ IF pwOk /\ opArg.email \in ExistingUsers
     THEN /\ evSeq < MaxEvents
          /\ provSession' = [uid |-> opArg.email, tok |-> evSeq + 1]
          /\ Dispatch(provSession')
          /\ opPc' = "signInResolve"
          /\ UNCHANGED opResult
          /\ opArg' = [opArg EXCEPT !.sess = provSession']
     ELSE /\ loading' = FALSE
          /\ opResult' = "signInRejected"
          /\ opPc' = "idle" /\ opArg' = NoArg
          /\ user' = NoUser /\ session' = NoSession
          /\ UNCHANGED <<provSession, inflight, evSeq, lastEv, resolved>>
  /\ UNCHANGED <<initPc, initBase, initSess>>
  /\ UNCHANGED dbVars /\ UNCHANGED queueVars /\ UNCHANGED adminVars
  /\ UNCHANGED formVars
  /\ UNCHANGED storeVars /\ UNCHANGED <<callback, submitTick>>

\* signInWithPassword answers. Accepted: the provider holds the new session
\* and raises SIGNED_IN. Rejected: AuthService.signIn throws, AuthProvider
\* rethrows, finally setLoading(false).
SignInProvider(pwOk) ==
  /\ opPc = "signIn"
  /\ IF pwOk /\ opArg.email \in ExistingUsers
     THEN /\ evSeq < MaxEvents
          /\ provSession' = [uid |-> opArg.email, tok |-> evSeq + 1]
          /\ Dispatch(provSession')
          /\ opPc' = "signInResolve"
          /\ UNCHANGED opResult
          /\ opArg' = [opArg EXCEPT !.sess = provSession']
     ELSE /\ loading' = FALSE
          /\ opResult' = "signInRejected"
          /\ opPc' = "idle" /\ opArg' = NoArg
          /\ UNCHANGED <<user, session, provSession, inflight, evSeq, lastEv, resolved>>
  /\ UNCHANGED <<initPc, initBase, initSess>>
  /\ UNCHANGED dbVars /\ UNCHANGED queueVars /\ UNCHANGED adminVars
  /\ UNCHANGED formVars
  /\ UNCHANGED storeVars /\ UNCHANGED <<callback, submitTick>>

\* AuthService.signIn resolves the profile; setUser, setSession, finally.
SignInFinish(readOk, repairOk) ==
  /\ opPc = "signInResolve"
  /\ user' = ResolveUser(BaseOf(opArg.email), readOk, repairOk)
  /\ profiles' = ProfilesAfterResolve(BaseOf(opArg.email), readOk, repairOk)
  /\ session' = opArg.sess
  /\ loading' = FALSE /\ resolved' = TRUE
  /\ opPc' = "idle" /\ opArg' = NoArg
  /\ UNCHANGED <<initPc, initBase, initSess, provSession, inflight, evSeq, lastEv>>
  /\ UNCHANGED authUsers /\ UNCHANGED queueVars /\ UNCHANGED adminVars
  /\ UNCHANGED formVars
  /\ UNCHANGED storeVars /\ UNCHANGED viewVars

\* signOut up to its await: setLoading(true).
SignOutStart ==
  /\ opPc = "idle"
  /\ loading' = TRUE
  /\ opPc' = "signOut"
  /\ UNCHANGED <<user, session, initPc, initBase, initSess, opArg, provSession,
                 inflight, evSeq, lastEv, resolved>>
  /\ UNCHANGED dbVars /\ UNCHANGED queueVars /\ UNCHANGED adminVars
  /\ UNCHANGED formVars
  /\ UNCHANGED storeVars /\ UNCHANGED <<callback, submitTick>> /\ opResult' = "none"

\* supabase.auth.signOut answers. Done: the provider drops the session and
\* raises SIGNED_OUT. Error: rethrown, finally setLoading(false).
SignOutProvider(ok) ==
  /\ opPc = "signOut"
  /\ IF ok
     THEN /\ evSeq < MaxEvents
          /\ provSession' = NoSession
          /\ Dispatch(NoSession)
          /\ opPc' = "signOutFinish"
          /\ UNCHANGED opResult
     ELSE /\ loading' = FALSE
          /\ opResult' = "signOutFailed"
          /\ opPc' = "idle"
          /\ UNCHANGED <<user, session, provSession, inflight, evSeq, lastEv, resolved>>
  /\ UNCHANGED <<initPc, initBase, initSess, opArg>>
  /\ UNCHANGED dbVars /\ UNCHANGED queueVars /\ UNCHANGED adminVars
  /\ UNCHANGED formVars
  /\ UNCHANGED storeVars /\ UNCHANGED <<callback, submitTick>>

\* setUser(null), setSession(null), finally.
SignOutFinish ==
  /\ opPc = "signOutFinish"
  /\ user' = NoUser /\ session' = NoSession
  /\ loading' = FALSE /\ resolved' = TRUE
  /\ opPc' = "idle"
  /\ UNCHANGED <<initPc, initBase, initSess, opArg, provSession, inflight, evSeq, lastEv>>
  /\ UNCHANGED dbVars /\ UNCHANGED queueVars /\ UNCHANGED adminVars
  /\ UNCHANGED formVars
  /\ UNCHANGED storeVars /\ UNCHANGED viewVars

NextSession ==
  \/ NextEvents
  \/ \E e \in Applicants, r \in RoleInputs : SignUpStart(e, r)
  \/ SignUpFinish
  \/ GoogleStart
  \/ GoogleFinish
  \/ \E e \in Emails : SignInStart(e)
  \/ \E ok \in BOOLEAN : SignInProvider(ok)
  \/ \E a, b \in BOOLEAN : SignInFinish(a, b)
  \/ SignOutStart
  \/ \E ok \in BOOLEAN : SignOutProvider(ok)
  \/ SignOutFinish

SpecSession == Init /\ [][NextSession]_vars

(* ------------------------------ Access Gate ---------------------------- *)
\* isAuthenticated: !!user.
IsAuthenticated == user # NoUser

\* The allowedRoles values of the route table (none given: []).
RouteAllowLists ==
  {{}, {"DOCTOR", "ADMIN"}, {"ASHA_WORKER", "DOCTOR", "ADMIN"}, {"ADMIN"}}

\* ProtectedRoute with the Access Denied branch replaced by the login redirect.
ProtectedRoute_SilentRedirect(allowedRoles) ==
  IF loading THEN "LOADING"
  ELSE IF ~IsAuthenticated THEN "REDIRECT_LOGIN"
  ELSE IF allowedRoles # {} /\ user # NoUser /\ user.role \notin allowedRoles
  THEN "REDIRECT_LOGIN"
  ELSE "RENDER"

\* ProtectedRoute asking for some role even when allowedRoles is empty.
ProtectedRoute_NeedsRole(allowedRoles) ==
  IF loading THEN "LOADING"
  ELSE IF ~IsAuthenticated THEN "REDIRECT_LOGIN"
  ELSE IF user.role = NoRole \/ (allowedRoles # {} /\ user.role \notin allowedRoles)
  THEN "DENY"
  ELSE "RENDER"

\* ProtectedRoute testing the role before it tests isAuthenticated.
ProtectedRoute_RoleBeforeLogin(allowedRoles) ==
  IF loading THEN "LOADING"
  ELSE IF allowedRoles # {} /\ user.role \notin allowedRoles THEN "DENY"
  ELSE IF ~IsAuthenticated THEN "REDIRECT_LOGIN"
  ELSE "RENDER"

\* What ProtectedRoute returns: the spinner, <Navigate to="/auth/login">, the
\* Access Denied view, or its children.
ProtectedRoute(allowedRoles) ==
  IF loading THEN "LOADING"
  ELSE IF ~IsAuthenticated THEN "REDIRECT_LOGIN"
  ELSE IF allowedRoles # {} /\ user # NoUser /\ user.role \notin allowedRoles
  THEN "DENY"
  ELSE "RENDER"

(* --------------------------- _composeUser alone ------------------------ *)
\* The role strings handed to _composeUser: base.user_metadata.role,
\* base.app_metadata.role and profile.role, each absent, an enum label or a
\* lower-case variant.
Probes ==
  [user : RoleInputs, app : RoleInputs, profile : RoleInputs,
   out : {NoRole}, done : {FALSE}]

InitCompose == InitCore /\ probe \in Probes

\* One call of _composeUser(base, profile).
ComposeCall ==
  /\ ~probe.done
  /\ probe' =
       [probe EXCEPT
          !.out = ComposeUser([id |-> AdminEmail, metaRole |-> probe.user,
                               appRole |-> probe.app], probe.profile).role,
          !.done = TRUE]
  /\ UNCHANGED <<res, phone, lastUpdate>> /\ UNCHANGED viewVars
  /\ UNCHANGED dbVars /\ UNCHANGED queueVars /\ UNCHANGED adminVars
  /\ UNCHANGED sessVars /\ UNCHANGED formVars

NextCompose == ComposeCall

SpecCompose == InitCompose /\ [][NextCompose]_vars

(* ----------------------- AuthService.getCurrentUser -------------------- *)
\* getCurrentUser() of a client signed in as u, from the answer of
\* supabase.auth.getUser() on (an error or no user returns null and touches
\* nothing): the profile read, _composeUser, the guarded repair update and
\* re-compose. signIn and the state-change handler run the same lines.
GetCurrentUser(u, readOk, repairOk) ==
  /\ u \in ExistingUsers
  /\ LET base == BaseOf(u)
         found == GetUserProfile(u, readOk)
         merged == ComposeUser(base, found)
     IN /\ profiles' = ProfilesAfterResolve(base, readOk, repairOk)
        /\ res' = [prev |-> res.cur,
                   cur |-> [uid |-> u, meta |-> base.metaRole,
                            rowBefore |-> profiles[u], rowAfter |-> profiles'[u],
                            readOk |-> readOk, found |-> found,
                            wrote |-> NeedsRepair(merged, base),
                            role |-> ResolveUser(base, readOk, repairOk).role]]
  /\ UNCHANGED <<probe, phone, lastUpdate>> /\ UNCHANGED viewVars
  /\ UNCHANGED authUsers /\ UNCHANGED queueVars /\ UNCHANGED adminVars
  /\ UNCHANGED sessVars /\ UNCHANGED formVars

(* ------------------- user_profiles under row level security ------------ *)
\* The update policies of user_profiles, with no column list and no
\* "with check": the row is the caller's own, or the caller's row has role
\* ADMIN.
UpdatePolicy(caller, target) ==
  \/ caller = target
  \/ profiles[caller] = "ADMIN"

\* The rows an update ... .eq('id', target) changes for a client signed in as
\* caller: the row when it exists and a policy passes, none otherwise.
UpdateApplies(caller, target) ==
  /\ profiles[target] # NoProfile
  /\ UpdatePolicy(caller, target)

\* role user_role not null: the value casts to the enum and is not null.
RoleStorable(role) == CastsToUserRole(role) /\ role # NoRole

\* update({ role }).eq('id', target) sent with caller's session, the statement
\* of _ensureProfileRole.
DbUpdateRole(caller, target, role) ==
  /\ caller \in ExistingUsers
  /\ profiles' = IF UpdateApplies(caller, target) /\ RoleStorable(role)
                 THEN [profiles EXCEPT ![target] = role]
                 ELSE profiles
  /\ lastUpdate' = [caller |-> caller, callerRole |-> profiles[caller],
                    target |-> target, field |-> "role",
                    applied |-> UpdateApplies(caller, target) /\ RoleStorable(role)]
  /\ UNCHANGED <<res, probe, phone>> /\ UNCHANGED viewVars
  /\ UNCHANGED authUsers /\ UNCHANGED queueVars /\ UNCHANGED adminVars
  /\ UNCHANGED sessVars /\ UNCHANGED formVars

\* update({ phone }).eq('id', target) sent with caller's session.
DbUpdatePhone(caller, target) ==
  /\ caller \in ExistingUsers
  /\ phone' = IF UpdateApplies(caller, target)
              THEN [phone EXCEPT ![target] = TRUE]
              ELSE phone
  /\ lastUpdate' = [caller |-> caller, callerRole |-> profiles[caller],
                    target |-> target, field |-> "phone",
                    applied |-> UpdateApplies(caller, target)]
  /\ UNCHANGED <<res, probe>> /\ UNCHANGED viewVars
  /\ UNCHANGED dbVars /\ UNCHANGED queueVars /\ UNCHANGED adminVars
  /\ UNCHANGED sessVars /\ UNCHANGED formVars

\* AuthService.updateProfile(updates) of a client signed in as u:
\* getCurrentUser(), then update({ full_name, phone, assigned_area,
\* avatar_url }).eq('id', user.id).
UpdateProfile(u, readOk, repairOk) ==
  /\ u \in ExistingUsers
  /\ LET base == BaseOf(u)
         found == GetUserProfile(u, readOk)
         merged == ComposeUser(base, found)
     IN /\ profiles' = ProfilesAfterResolve(base, readOk, repairOk)
        /\ res' = [prev |-> res.cur,
                   cur |-> [uid |-> u, meta |-> base.metaRole,
                            rowBefore |-> profiles[u], rowAfter |-> profiles'[u],
                            readOk |-> readOk, found |-> found,
                            wrote |-> NeedsRepair(merged, base),
                            role |-> ResolveUser(base, readOk, repairOk).role]]
  /\ phone' = IF UpdateApplies(u, u) THEN [phone EXCEPT ![u] = TRUE] ELSE phone
  /\ lastUpdate' = [caller |-> u, callerRole |-> profiles[u], target |-> u,
                    field |-> "contact", applied |-> UpdateApplies(u, u)]
  /\ UNCHANGED probe /\ UNCHANGED viewVars
  /\ UNCHANGED authUsers /\ UNCHANGED queueVars /\ UNCHANGED adminVars
  /\ UNCHANGED sessVars /\ UNCHANGED formVars

NextResolver ==
  \/ \E e \in Applicants, r \in RoleInputs : AuthServiceSignUp(e, r)
  \/ \E u \in Emails, a, b \in BOOLEAN : GetCurrentUser(u, a, b)
  \/ \E u \in Emails, a, b \in BOOLEAN : UpdateProfile(u, a, b)

\* The clients that resolve their user.
SpecResolver == Init /\ [][NextResolver]_vars

\* The identity provider creates an identity that carries no role claim (the
\* first Google sign-in of signInWithGoogle); the trigger adds its row.
ProviderCreatesUser(e) ==
  /\ ~authUsers[e].exists
  /\ authUsers' = [authUsers EXCEPT ![e] =
                     [exists |-> TRUE, metaRole |-> NoRole, origin |-> "oauth"]]
  /\ profiles' = ProfilesAfterInsert(e, NoRole)
  /\ UNCHANGED storeVars /\ UNCHANGED viewVars
  /\ UNCHANGED queueVars /\ UNCHANGED adminVars
  /\ UNCHANGED sessVars /\ UNCHANGED formVars

\* The auth.users row is deleted; references auth.users(id) on delete cascade
\* removes the user_profiles row with it.
DeleteUser(e) ==
  /\ authUsers[e].exists
  /\ authUsers' = [authUsers EXCEPT ![e] = NoIdentity]
  /\ profiles' = [profiles EXCEPT ![e] = NoProfile]
  /\ phone' = [phone EXCEPT ![e] = FALSE]
  /\ UNCHANGED <<res, probe, lastUpdate>> /\ UNCHANGED viewVars
  /\ UNCHANGED queueVars /\ UNCHANGED adminVars
  /\ UNCHANGED sessVars /\ UNCHANGED formVars

NextStore ==
  \/ \E e \in Applicants, r \in RoleInputs : AuthServiceSignUp(e, r)
  \/ \E e \in Applicants : ProviderCreatesUser(e)
  \/ \E e \in Applicants : DeleteUser(e)
  \/ \E c, g \in Emails, r \in RoleInputs : DbUpdateRole(c, g, r)
  \/ \E c, g \in Emails : DbUpdatePhone(c, g)

\* auth.users and user_profiles under every statement that reaches them.
SpecStore == Init /\ [][NextStore]_vars

NextRows ==
  \/ \E e \in Applicants, r \in RoleInputs : AuthServiceSignUp(e, r)
  \/ \E c, g \in Emails, r \in Roles : DbUpdateRole(c, g, r)
  \/ \E c, g \in Emails : DbUpdatePhone(c, g)
  \/ \E u \in Emails, a, b \in BOOLEAN : UpdateProfile(u, a, b)

\* The clients that update rows of user_profiles.
SpecRows == Init /\ [][NextRows]_vars

(* ------------------------------ AuthCallback --------------------------- *)
\* The path the role chain of the effect navigates to.
CallbackTarget_AshaToDoctor(role) ==
  IF role = "ADMIN" THEN "/admin/dashboard"
  ELSE IF role = "DOCTOR" THEN "/doctor/dashboard"
  ELSE IF role = "ASHA_WORKER" THEN "/doctor/dashboard"
  ELSE "/"

\* The path the role chain of the effect navigates to (lines 16-20, 25-34).
CallbackTarget(role) ==
  IF role = "ADMIN" THEN "/admin/dashboard"
  ELSE IF role = "DOCTOR" THEN "/doctor/dashboard"
  ELSE IF role = "ASHA_WORKER" THEN "/asha/dashboard"
  ELSE "/"

\* The effect's dependency array (navigate is stable).
CallbackDeps == <<loading, IsAuthenticated, user>>

\* navigate(target, { replace: true }): the route changes and AuthCallback
\* is unmounted.
Navigated(cb, role) ==
  [cb EXCEPT !.mounted = FALSE, !.navs = @ + 1,
             !.target = CallbackTarget(role), !.role = role]

\* The effect runs after the first render and after every render in which a
\* dependency changed.
CallbackEffect ==
  /\ callback.mounted /\ callback.seen # CallbackDeps
  /\ LET cb == [callback EXCEPT !.seen = CallbackDeps] IN
     IF loading THEN callback' = cb
     ELSE IF ~IsAuthenticated THEN callback' = [cb EXCEPT !.fetches = @ + 1]
     ELSE callback' = Navigated(cb, user.role)
  /\ UNCHANGED dbVars /\ UNCHANGED queueVars /\ UNCHANGED adminVars
  /\ UNCHANGED sessVars /\ UNCHANGED formVars /\ UNCHANGED storeVars
  /\ UNCHANGED <<submitTick, opResult>>

\* The getCurrentUser call of the unauthenticated branch answers: null
\* (no user, or getUser failed) ends the async function; a user is
\* navigated by role.
CallbackFetchDone(ok, readOk, repairOk) ==
  /\ callback.fetches > 0
  /\ LET cb == [callback EXCEPT !.fetches = @ - 1] IN
     IF ok /\ provSession # NoSession
     THEN /\ callback' =
               Navigated(cb, ResolveUser(BaseOf(provSession.uid), readOk, repairOk).role)
          /\ profiles' = ProfilesAfterResolve(BaseOf(provSession.uid), readOk, repairOk)
     ELSE /\ callback' = cb
          /\ UNCHANGED profiles
  /\ UNCHANGED authUsers /\ UNCHANGED queueVars /\ UNCHANGED adminVars
  /\ UNCHANGED sessVars /\ UNCHANGED formVars /\ UNCHANGED storeVars
  /\ UNCHANGED <<submitTick, opResult>>

NextCallback ==
  \/ NextEvents
  \/ CallbackEffect
  \/ \E ok, a, b \in BOOLEAN : CallbackFetchDone(ok, a, b)
  \/ \E e \in Applicants, r \in RoleInputs : AuthServiceSignUp(e, r)
  \/ \E e \in Applicants : ProviderCreatesUser(e)

\* /auth/callback opened in a fresh page: AuthProvider and AuthCallback mount
\* together.
SpecCallback == Init /\ [][NextCallback]_vars

Next ==
  \/ NextApproval \/ NextAdminPage \/ NextSignup \/ NextSession
  \/ NextCompose \/ NextResolver \/ NextRows \/ NextStore \/ NextCallback

Spec == Init /\ [][Next]_vars

(* ------------------------ Session Cache: properties -------------------- *)
\* No resolution is in flight.
Quiescent == initPc = "done" /\ inflight = {} /\ opPc = "idle"

\* C1: last-write-wins by event recency: once every in-flight resolution has
\* completed, the cached session is the most recent event's and the cached
\* user is that session's user (none after SIGNED_OUT).
C1_LatestEventWins ==
  (Quiescent /\ evSeq > 0) => (session = lastEv /\ user.id = lastEv.uid)

\* C2: until a resolution has completed the gate returns the loading
\* placeholder only; the children are returned only when loading is false,
\* a user is cached and allowedRoles is empty or holds the user's role.
C2_NoRenderWhileInitializing ==
  \A ar \in RouteAllowLists :
    /\ ~resolved => ProtectedRoute(ar) = "LOADING"
    /\ ProtectedRoute(ar) = "RENDER"
         => (~loading /\ user # NoUser /\ (ar = {} \/ user.role \in ar))

(* --------------------------- Role Resolver: properties ------------------ *)
\* The metadata claim _composeUser falls back to.
ProbeClaim == IF probe.user # NoRole THEN probe.user ELSE probe.app

\* C15: a present profile.role wins over any metadata claim and is returned
\* upper-cased; the claim is used only when profile.role is absent; the
\* resolved role is null or an upper-case string.
C15_ProfileRoleWins ==
  probe.done =>
    /\ probe.profile # NoRole => probe.out = ToUpperCase(probe.profile)
    /\ probe.profile = NoRole => probe.out = ToUpperCase(ProbeClaim)
    /\ probe.out \in Roles \cup {NoRole}

\* C15 witness: profile.role 'doctor' against the claim ADMIN resolves DOCTOR.
C15_Witness ==
  /\ probe.done /\ probe.profile = "doctor" /\ probe.user = "ADMIN"
  /\ probe.out = "DOCTOR"

\* The resolutions on record.
Resolutions == {r \in {res.cur, res.prev} : r.uid # "NONE"}

\* C16: a resolution that finds profile.role absent while the identity
\* carries a role claim issues the repair update, and the next resolution of
\* that user finds profile.role present.
C16_RepairWrite ==
  /\ \A r \in Resolutions : (r.found = NoRole /\ r.meta # NoRole) => r.wrote
  /\ (/\ res.prev.uid # "NONE" /\ res.cur.uid = res.prev.uid
      /\ res.prev.found = NoRole /\ res.prev.meta # NoRole
      /\ res.cur.readOk /\ res.cur.rowBefore = res.prev.rowAfter)
       => res.cur.found # NoRole

\* Two consecutive resolutions of one user whose Identity and Profile nobody
\* else changed in between.
SamePairTwice ==
  /\ res.prev.uid # "NONE" /\ res.cur.uid = res.prev.uid
  /\ res.cur.meta = res.prev.meta
  /\ res.cur.rowBefore = res.prev.rowAfter

\* C17 as stated: resolving the same unchanged pair twice returns the same
\* role both times and issues at most one repair update.
C17_Idempotent ==
  SamePairTwice =>
    (res.cur.role = res.prev.role /\ ~(res.cur.wrote /\ res.prev.wrote))

\* C18: a resolution whose profile read failed, or whose repair update
\* failed, still returns the role of the metadata claim.
C18_FailuresDoNotBlock ==
  \A r \in Resolutions :
    (~r.readOk \/ (r.wrote /\ r.rowAfter = r.rowBefore))
      => r.role = ToUpperCase(r.meta)

\* C18 witness: the profile read of a DOCTOR failed and DOCTOR was returned.
C18_Witness ==
  /\ ~res.cur.readOk /\ res.cur.uid \in Applicants
  /\ res.cur.meta = "DOCTOR" /\ res.cur.role = "DOCTOR"

(* --------------------- auth.users and user_profiles -------------------- *)
\* Each Identity has its Profile row and each row its Identity.
OneProfilePerIdentity ==
  \A e \in Emails : authUsers[e].exists <=> profiles[e] # NoProfile

\* The row made for a new Identity has the role of its claim, or ASHA_WORKER.
CreatedWithClaimRole ==
  \A e \in Emails :
    (~authUsers[e].exists /\ authUsers'[e].exists)
      => profiles'[e] = (IF authUsers'[e].metaRole # NoRole
                         THEN authUsers'[e].metaRole ELSE "ASHA_WORKER")

\* C21: Identity and Profile are one-to-one in every state (a deleted
\* Identity takes its Profile with it), and the Profile created with an
\* Identity has the sign-up role claim, or ASHA_WORKER when none is given.
C21_OneToOne == []OneProfilePerIdentity /\ [][CreatedWithClaimRole]_vars

\* C21 witness: an Identity without a claim and its ASHA_WORKER row.
C21_Witness ==
  \E e \in Applicants :
    /\ authUsers[e].exists /\ authUsers[e].metaRole = NoRole
    /\ profiles[e] = "ASHA_WORKER"

\* C22: the role of every Profile row is ADMIN, DOCTOR or ASHA_WORKER.
C22_RoleIsEnum ==
  \A e \in Emails : profiles[e] # NoProfile => profiles[e] \in Roles

\* C22 witness: a role update of the caller's own row was refused (the value
\* is no enum label) and the row kept a label.
C22_Witness ==
  /\ lastUpdate.field = "role" /\ ~lastUpdate.applied
  /\ lastUpdate.caller = lastUpdate.target
  /\ lastUpdate.caller \in Applicants
  /\ profiles[lastUpdate.target] \in Roles

(* ------------------------- user_profiles: properties ------------------- *)
\* C19: an update sent with the credentials of a user whose Profile role is
\* not ADMIN changes only non-role fields, and only of that user's own row.
C19_OnlyAdminChangesRole ==
  (lastUpdate.applied /\ lastUpdate.callerRole # "ADMIN")
    => (lastUpdate.field # "role" /\ lastUpdate.target = lastUpdate.caller)

(* ------------------------------ route table --------------------------- *)
PublicPaths == {"/auth/login", "/auth/signup", "/auth/callback", "/"}
ProtectedPaths ==
  {"/dashboard", "/doctor", "/asha", "/admin/dashboard", "/admin/approvals",
   "/doctor/dashboard", "/asha/dashboard"}
Paths == PublicPaths \cup ProtectedPaths

\* The route table with /doctor wrapped in a ProtectedRoute without
\* allowedRoles.
AllowedRolesOf_DoctorOpen(path) ==
  IF path \in {"/dashboard", "/doctor"} THEN {}
  ELSE IF path = "/doctor/dashboard" THEN {"DOCTOR", "ADMIN"}
  ELSE IF path \in {"/asha", "/asha/dashboard"} THEN {"ASHA_WORKER", "DOCTOR", "ADMIN"}
  ELSE {"ADMIN"}

\* allowedRoles of the ProtectedRoute that wraps the element of a path.
AllowedRolesOf(path) ==
  IF path = "/dashboard" THEN {}
  ELSE IF path \in {"/doctor", "/doctor/dashboard"} THEN {"DOCTOR", "ADMIN"}
  ELSE IF path \in {"/asha", "/asha/dashboard"} THEN {"ASHA_WORKER", "DOCTOR", "ADMIN"}
  ELSE {"ADMIN"}

\* What <Routes> shows at a path: the element itself, or what its
\* ProtectedRoute returns.
RouteView(path) ==
  IF path \in PublicPaths THEN "RENDER" ELSE ProtectedRoute(AllowedRolesOf(path))

(* --------------------------- Access Gate: properties ------------------- *)
\* The session states as the gate reads them from the Session Cache.
Initializing == loading = TRUE
Authenticated == ~loading /\ user # NoUser
Anonymous == ~loading /\ user = NoUser

\* C11: for an AUTHENTICATED session and a non-empty allowedRoles, a role that
\* is not a member (a null role included) gets the Access Denied view, never
\* the children and never the login redirect; a member role gets the children.
C11_DenyNonMember ==
  \A ar \in RouteAllowLists \ {{}} :
    /\ (Authenticated /\ user.role \notin ar) => ProtectedRoute(ar) = "DENY"
    /\ (Authenticated /\ user.role \in ar) => ProtectedRoute(ar) = "RENDER"

\* C11 witness: a DOCTOR session is denied on an ['ADMIN'] route.
C11_Witness ==
  Authenticated /\ user.role = "DOCTOR" /\ ProtectedRoute({"ADMIN"}) = "DENY"

\* C12: a session whose resolved role is null is rendered no protected route
\* of the route table.
C12_NullRoleRendersNothing ==
  \A ar \in RouteAllowLists :
    (Authenticated /\ user.role = NoRole) => ProtectedRoute(ar) # "RENDER"

\* C13: with allowedRoles empty every AUTHENTICATED session is rendered the
\* children, whatever its role.
C13_EmptyListRenders ==
  Authenticated => ProtectedRoute({}) = "RENDER"

\* C13 witness: a session without a role is rendered a route without
\* allowedRoles.
C13_Witness ==
  Authenticated /\ user.role = NoRole /\ ProtectedRoute({}) = "RENDER"

\* C14: an ANONYMOUS session is redirected to /auth/login on every protected
\* route, whatever its allowedRoles.
C14_AnonymousRedirects ==
  Anonymous => \A ar \in RouteAllowLists : ProtectedRoute(ar) = "REDIRECT_LOGIN"

\* C14 witness: after a sign-out the ['ADMIN'] route redirects to the login.
C14_Witness ==
  /\ resolved /\ Anonymous /\ evSeq > 0 /\ lastEv = NoSession
  /\ ProtectedRoute({"ADMIN"}) = "REDIRECT_LOGIN"

\* C23: /auth/login and /auth/signup are public; /dashboard renders for any
\* authenticated session; /doctor* renders exactly for DOCTOR and ADMIN,
\* /asha* exactly for ASHA_WORKER, DOCTOR and ADMIN, /admin/* exactly for
\* ADMIN.
C23_RouteTable ==
  /\ \A p \in {"/auth/login", "/auth/signup"} : RouteView(p) = "RENDER"
  /\ Authenticated => RouteView("/dashboard") = "RENDER"
  /\ RouteView("/dashboard") = "RENDER" => Authenticated
  /\ \A p \in {"/doctor", "/doctor/dashboard"} :
       RouteView(p) = "RENDER" <=> (Authenticated /\ user.role \in {"DOCTOR", "ADMIN"})
  /\ \A p \in {"/asha", "/asha/dashboard"} :
       RouteView(p) = "RENDER"
         <=> (Authenticated /\ user.role \in {"ASHA_WORKER", "DOCTOR", "ADMIN"})
  /\ \A p \in {"/admin/dashboard", "/admin/approvals"} :
       RouteView(p) = "RENDER" <=> (Authenticated /\ user.role = "ADMIN")

\* C23 witness: an ASHA_WORKER session is rendered /asha and denied /doctor.
C23_Witness ==
  /\ Authenticated /\ user.role = "ASHA_WORKER"
  /\ RouteView("/asha") = "RENDER" /\ RouteView("/doctor") = "DENY"
  /\ RouteView("/admin/approvals") = "DENY"

\* C26: the step in which signIn is rejected or signOut throws leaves user
\* and session as they were and sets loading to false; the step that
\* completes a signIn stores that call's session and its merged user; the
\* step that completes a signOut sets both to null.
C26_Step ==
  /\ (opPc \in {"signIn", "signOut"} /\ opPc' = "idle")
       => (user' = user /\ session' = session /\ ~loading' /\ opResult' # "none")
  /\ (opPc = "signInResolve" /\ opPc' = "idle")
       => (session' = opArg.sess /\ user'.id = opArg.email /\ ~loading')
  /\ (opPc = "signOutFinish" /\ opPc' = "idle")
       => (user' = NoUser /\ session' = NoSession /\ ~loading')
C26_FailedOpKeepsCache == [][C26_Step]_vars

\* C26 witness: a signed-in user's signIn call has just been rejected and
\* the cache still holds the user and the session.
C26_Witness ==
  /\ opResult = "signInRejected" /\ opPc = "idle"
  /\ user # NoUser /\ session # NoSession /\ ~loading

\* C24: a navigation of the callback view happens only when loading is
\* false, goes to /admin/dashboard for ADMIN, /doctor/dashboard for DOCTOR,
\* /asha/dashboard for ASHA_WORKER and "/" for any other or no role, and a
\* gated target's allow-list contains the role it was chosen for.
C24_Step ==
  callback'.navs # callback.navs
  => /\ ~loading /\ ~loading'
     /\ LET r == callback'.role
            g == callback'.target
        IN /\ r = "ADMIN" => g = "/admin/dashboard"
           /\ r = "DOCTOR" => g = "/doctor/dashboard"
           /\ r = "ASHA_WORKER" => g = "/asha/dashboard"
           /\ r \notin {"ADMIN", "DOCTOR", "ASHA_WORKER"} => g = "/"
           /\ g \in Paths
           /\ g \in ProtectedPaths => r \in AllowedRolesOf(g)
C24_CallbackRedirectsByRole == [][C24_Step]_vars

\* C24 witness: an ASHA_WORKER was sent from the callback view to
\* /asha/dashboard.
C24_Witness ==
  /\ ~callback.mounted /\ callback.navs > 0 /\ ~loading
  /\ callback.role = "ASHA_WORKER" /\ callback.target = "/asha/dashboard"

\* The callback view has nothing left to run: the session has resolved, no
\* event and no getCurrentUser call is pending, and the effect has run on
\* the current dependencies.
CallbackSettled ==
  /\ ~loading /\ initPc = "done" /\ inflight = {}
  /\ callback.fetches = 0 /\ callback.seen = CallbackDeps

\* C30: once the session has resolved and the callback view has nothing left
\* to run, it has navigated away from the spinner.
C30_CallbackTerminates == CallbackSettled => ~callback.mounted

\* C27: no list or decision call the AdminApprovals page issues is sent
\* without a bearer token.
C27_Step ==
  (/\ adminVars' # adminVars
   /\ lastCall' # lastCall
   /\ lastCall'.op \in {"list", "decide"})
  => lastCall'.token # NoToken
C27_PrivilegedCallsCarryToken == [][C27_Step]_vars

\* C28: whenever loading is false, user is non-null exactly when session is
\* non-null.
C28_UserIffSession == ~loading => (user # NoUser <=> session # NoSession)

\* C29: every merged user placed in the session cache carries the role of
\* that user's row in user_profiles, if the row exists.
C29_Step ==
  (user' # user /\ user' # NoUser /\ profiles'[user'.id] # NoProfile)
  => user'.role = profiles'[user'.id]
C29_CacheRoleIsProfileRole == [][C29_Step]_vars

(* -------------------- Session Cache: the state machine ----------------- *)
\* One step of the client session: INITIALIZING is not entered again; a
\* cached user is dropped only when the provider holds no session any more
\* (sign-out, token invalidated); a state-change event that carries a user
\* (a token refresh among them) completes into AUTHENTICATED.
C20_Step ==
  /\ ~Initializing => ~Initializing'
  /\ (user # NoUser /\ user' = NoUser) => provSession' = NoSession
  /\ (inflight' # inflight /\ inflight' \subseteq inflight) => Authenticated'

\* C20: the session starts INITIALIZING, leaves it when a resolution
\* completes and never returns to it; AUTHENTICATED becomes ANONYMOUS only on
\* sign-out or token invalidation, and stays AUTHENTICATED across a token
\* refresh.
C20_SessionStateMachine == Initializing /\ [][C20_Step]_vars

====
